---- MODULE Spec2Model ----
(***************************************************************************)
(* The request loop of gitstatus (src/src/gitstatus.cc): GitStatus reads   *)
(* requests one at a time and ProcessRequest answers each of them with one *)
(* tab-separated record.  ProcessRequest is modelled statement group by    *)
(* statement group; its scope guards and the destructor of its             *)
(* ResponseWriter are a stack that is unwound on every exit, and the tag   *)
(* lookup it starts is a second thread of control.                         *)
(*                                                                         *)
(* The collaborators whose bodies are not in gitstatus.cc (RequestReader,  *)
(* RepoCache, Repo, ResponseWriter, the helpers of git.h) are modelled     *)
(* from their call sites and from the specification; what they return from *)
(* the repository on disk is drawn from small sets when they are called.   *)
(*                                                                         *)
(* Spec is the loop with its requests.  SpecPath and SpecIndex start where *)
(* ProcessRequest asks for the working directory and where it tests        *)
(* req.diff, with every path and every index; SpecTwice reads one request  *)
(* twice from a repository that does not change; SpecFail lets the tag     *)
(* lookup fail in sight; SpecTerm adds the delivery of SIGTERM.            *)
(***************************************************************************)
EXTENDS Integers, Sequences, FiniteSets, TLC

\* ------------------------------------------------------------------ bounds

\* Lines the request reader hands out before the model stops reading.
MaxRequests == 2
\* The size of the repository a request looks at: the commits above the
\* merge base on the way to head and to the upstream tip, the index entries,
\* the untracked files, the stash entries, the tag at head and the marker of
\* an operation in progress, all together.
MaxObjects == 2
\* The longest working directory path, in characters.
MaxPath == 4

\* ------------------------------------------------------------------ values

Ids == {"a", "b"}
Dirs == {"/r", "/x"}
\* The directories that hold a repository.
Repos == {"/r"}
Requests == [id : Ids, dir : Dirs, diff : BOOLEAN]
NoRequest == [id |-> "", dir |-> "", diff |-> FALSE]

\* Options: the four bounds that ProcessRequest's comments name, and the
\* threshold past which the index is "too large".
opts ==
  [max_num_staged |-> 1, max_num_unstaged |-> 1, max_num_conflicted |-> 1,
   max_num_untracked |-> 1, dirty_max_index_size |-> 1]

Min(a, b) == IF a < b THEN a ELSE b

\* Decimal rendering of a non-negative integer, as the response writer
\* prints a number.
Digit == <<"0", "1", "2", "3", "4", "5", "6", "7", "8", "9">>
RECURSIVE Dec(_)
Dec(n) == IF n < 10 THEN Digit[n + 1] ELSE Dec(n \div 10) \o Digit[(n % 10) + 1]

\* A character sequence as the string that is printed.
RECURSIVE Str(_)
Str(s) == IF s = <<>> THEN "" ELSE s[1] \o Str(Tail(s))

\* ------------------------------------------------------------ commit graph

\* Commit 0 is the merge base; 1..MaxObjects are the local line above it
\* and MaxObjects+1..2*MaxObjects the remote line.
NoOid == -1
Commits == 0 .. (2 * MaxObjects)
LocalCommits == 0 .. MaxObjects
Parent(c) == IF c = 0 THEN NoOid ELSE IF c = MaxObjects + 1 THEN 0 ELSE c - 1
\* The commits between c and the merge base.
Height(c) == IF c = NoOid THEN 0 ELSE IF c > MaxObjects THEN c - MaxObjects ELSE c
RECURSIVE Reach(_)
Reach(c) == IF c = NoOid THEN {} ELSE {c} \cup Reach(Parent(c))

\* git_oid_tostr_s: the hexadecimal name of a commit.
OidStr(c) == "c0de" \o Dec(c)

\* ------------------------------------------------------------- references

Null == [kind |-> "null"]
\* What Head() can return: a symbolic reference of an empty repository (no
\* target), a branch or a detached head.
HeadRefs ==
  {[kind |-> "ref", target |-> NoOid, branch |-> "master"]}
    \cup [kind : {"ref"}, target : LocalCommits, branch : {"master", ""}]
\* What Upstream() can return besides null.
UpstreamRefs ==
  [kind : {"ref"}, target : Commits, remote : {"origin"}, branch : {"main"},
   url : {"git@host"}]

\* git_reference_shorthand of a remote-tracking reference.
Shorthand(ref) == ref.remote \o "/" \o ref.branch

\* Remote(): the default-constructed value has empty strings.
EmptyRemote == [name |-> "", branch |-> ""]
\* GetRemote(repo, upstream).
GetRemote(ref) == [name |-> ref.remote, branch |-> ref.branch]
\* RemoteUrl(repo, upstream).
RemoteUrl(ref) == ref.url

\* The names a revision range can use, as the repository resolves them.
RepoRefs(h, u) ==
  [name \in {"HEAD"} \cup (IF u.kind = "ref" THEN {Shorthand(u)} ELSE {}) |->
     IF name = "HEAD" THEN h.target ELSE u.target]

\* A revision range "<from>..<to>" is kept as its three parts.
RangeOf(from, to) == <<from>> \o <<"..", to>>

\* CountRange(repo, range): the commits reachable from the range's right
\* end and not from its left end.
CountRange(refs, range) ==
  Cardinality(Reach(refs[range[3]]) \ Reach(refs[range[1]]))

\* ------------------------------------------------------------------ index

\* The index and working tree as GetIndexStats finds them: index entries
\* that differ from the head tree (staged), that differ from the file on
\* disk (unstaged), that have a stage above 0 (conflicted), that are clean,
\* and untracked files.
IndexWorlds ==
  {w \in [staged : 0 .. MaxObjects, unstaged : 0 .. MaxObjects,
          conflicted : 0 .. MaxObjects, clean : 0 .. MaxObjects,
          untracked : 0 .. MaxObjects] :
     w.staged + w.unstaged + w.conflicted + w.clean + w.untracked <= MaxObjects}
NoIndex == [staged |-> 0, unstaged |-> 0, conflicted |-> 0, clean |-> 0, untracked |-> 0]

IndexSize(w) == w.staged + w.unstaged + w.conflicted + w.clean

\* One bounded pass split over two workers: k of the n entries fall into the
\* first worker's range.  Each worker stops at the bound; the total is the
\* saturated sum.
Pass(n, k, bound) == Min(Min(k, bound) + Min(n - k, bound), bound)

\* Repo::GetIndexStats with the split points ks of its four passes.
GetIndexStats(w, ks) ==
  LET large == IndexSize(w) > opts.dirty_max_index_size IN
  [index_size |-> IndexSize(w),
   num_staged |-> Pass(w.staged, Min(ks[1], w.staged), opts.max_num_staged),
   num_unstaged |->
     IF large THEN 0
     ELSE Pass(w.unstaged, Min(ks[2], w.unstaged), opts.max_num_unstaged),
   num_conflicted |->
     IF large THEN 0
     ELSE Pass(w.conflicted, Min(ks[3], w.conflicted), opts.max_num_conflicted),
   num_untracked |->
     IF large THEN 0
     ELSE Pass(w.untracked, Min(ks[4], w.untracked), opts.max_num_untracked)]

Splits == [1 .. 4 -> {0, 1}]

\* ------------------------------------------------------------------ state

VARIABLES
  pc,        \* where the request thread is
  nlines,    \* lines the reader has handed out
  nbad,      \* malformed lines among them
  ids,       \* the ids of the requests read, in order
  req,       \* the request being processed
  resp,      \* ResponseWriter: request id, fields printed so far, dumped
  written,   \* the record this request has put on the output
  out,       \* the output so far: id and number of fields of each record
  cache,     \* RepoCache: the directories whose repository is open
  head,      \* git_reference* head
  upstream,  \* git_reference* upstream
  tag,       \* the background tag lookup and its std::future
  stack,     \* the scope guards and destructors still to run, innermost last
  seen,      \* what the repository answered during this request
  log,       \* the calls and releases of this request, in order
  exit,      \* how ProcessRequest was left
  prev,      \* the request before this one, what it saw and its record
  status     \* the exit status of the process (-1: it runs)

vars ==
  <<pc, nlines, nbad, ids, req, resp, written, out, cache, head, upstream,
    tag, stack, seen, log, exit, prev, status>>

\* ResponseWriter resp(id).
ResponseWriter(id) == [id |-> id, buf |-> <<>>, done |-> FALSE]
\* resp.Print(field) for each of the fields, in order.
PrintAll(w, fields) == [w EXCEPT !.buf = @ \o fields]
\* The record resp.Dump() writes: the id, then the printed fields.
Record(w) == <<w.id>> \o w.buf
\* The record ~ResponseWriter() writes when nothing was dumped.
IdOnly(w) == <<w.id>>
\* What the output keeps of a record.
Summary(rec) == [id |-> rec[1], n |-> Len(rec)]

\* The lookup (none, running, ended), the validity of its future, and what
\* tag.get() got from it.
NoTag == [st |-> "none", valid |-> FALSE, got |-> "", val |-> ""]
NoSeen ==
  [workdir |-> <<>>, action |-> "", index |-> NoIndex, stashes |-> 0,
   size |-> 0]
\* The repository has room for n more objects.
Room(n) == seen.size + n <= MaxObjects

\* git_repository_workdir: empty for a bare repository, else an absolute
\* path with a trailing slash.
\* No request is remembered.
NoPrev == [kind |-> "none"]
\* The process has not exited.
Running == -1

Workdirs == {<<>>, <<"/">>, <<"/", "r", "/">>}
Actions == {"", "merge"}
TagNames == {"", "v1"}

Init ==
  /\ pc = "read"
  /\ nlines = 0
  /\ nbad = 0
  /\ ids = <<>>
  /\ req = NoRequest
  /\ resp = ResponseWriter("")
  /\ written = <<>>
  /\ out = <<>>
  /\ cache = {}
  /\ head = Null
  /\ upstream = Null
  /\ tag = NoTag
  /\ stack = <<>>
  /\ seen = NoSeen
  /\ log = <<>>
  /\ exit = ""
  /\ prev = NoPrev
  /\ status = Running

\* ------------------------------------------------------- the request loop

\* ResponseWriter resp(req.id);
NewResponse_Dir(r) == ResponseWriter(r.dir)
NewResponse(r) == ResponseWriter(r.id)

\* reader.ReadRequest() returns a request; ProcessRequest is entered: its
\* timer guard and its ResponseWriter are constructed.
ReadRequest ==
  /\ pc = "read"
  /\ nlines < MaxRequests
  /\ \E r \in Requests :
       /\ req' = r
       /\ ids' = Append(ids, r.id)
       /\ resp' = NewResponse(r)
  /\ nlines' = nlines + 1
  /\ pc' = "open"
  /\ written' = <<>>
  /\ head' = Null
  /\ upstream' = Null
  /\ tag' = NoTag
  /\ stack' = <<"timer", "resp">>
  /\ seen' = NoSeen
  /\ log' = <<>>
  /\ exit' = ""
  /\ UNCHANGED <<prev, status>>
  /\ UNCHANGED <<nbad, out, cache>>

\* reader.ReadRequest() throws: the outer catch swallows the exception and
\* the loop goes round.
ReadMalformed_Closes ==
  /\ pc = "read"
  /\ nlines < MaxRequests
  /\ nlines' = nlines + 1
  /\ nbad' = nbad + 1
  /\ pc' = "closed"
  /\ UNCHANGED <<prev, status>>
  /\ UNCHANGED <<ids, req, resp, written, out, cache, head, upstream, tag,
                 stack, seen, log, exit>>
ReadMalformed_Uncaught ==
  /\ pc = "read"
  /\ nlines < MaxRequests
  /\ nlines' = nlines + 1
  /\ nbad' = nbad + 1
  /\ pc' = "aborted"
  /\ UNCHANGED <<prev, status>>
  /\ UNCHANGED <<ids, req, resp, written, out, cache, head, upstream, tag,
                 stack, seen, log, exit>>
ReadMalformed ==
  /\ pc = "read"
  /\ nlines < MaxRequests
  /\ nlines' = nlines + 1
  /\ nbad' = nbad + 1
  /\ UNCHANGED <<prev, status>>
  /\ UNCHANGED <<pc, ids, req, resp, written, out, cache, head, upstream,
                 tag, stack, seen, log, exit>>

\* Leaving ProcessRequest, by return or by exception: the stack is unwound.
Leave(how) ==
  /\ pc' = "unwind"
  /\ exit' = how

\* Repo* repo = cache.Open(req.dir); if (!repo) return;
Open_Stale ==
  /\ pc = "open"
  /\ IF req.dir \notin cache /\ req.dir \in Repos
     THEN /\ cache' = cache \cup {req.dir}
          /\ pc' = "head"
          /\ UNCHANGED exit
     ELSE /\ Leave("norepo")
          /\ UNCHANGED cache
  /\ log' = Append(log, <<"Open">>)
  /\ UNCHANGED <<prev, status>>
  /\ UNCHANGED <<nlines, nbad, ids, req, resp, written, out, head, upstream,
                 tag, stack, seen>>
Open ==
  /\ pc = "open"
  /\ IF req.dir \in cache \/ req.dir \in Repos
     THEN /\ cache' = cache \cup {req.dir}
          /\ pc' = "head"
          /\ UNCHANGED exit
     ELSE /\ Leave("norepo")
          /\ UNCHANGED cache
  /\ log' = Append(log, <<"Open">>)
  /\ UNCHANGED <<prev, status>>
  /\ UNCHANGED <<nlines, nbad, ids, req, resp, written, out, head, upstream,
                 tag, stack, seen>>

\* git_reference* head = Head(repo); if (!head) return; the guard that
\* frees it is set.
GetHead ==
  /\ pc = "head"
  /\ \E h \in HeadRefs \cup {Null} :
       IF h = Null
       THEN /\ Leave("nohead")
            /\ UNCHANGED <<head, stack, log, seen>>
       ELSE /\ Room(Height(h.target))
            /\ seen' = [seen EXCEPT !.size = @ + Height(h.target)]
            /\ head' = h
            /\ stack' = Append(stack, "head")
            /\ log' = Append(log, <<"Head">>)
            /\ pc' = "tag"
            /\ UNCHANGED exit
  /\ UNCHANGED <<prev, status>>
  /\ UNCHANGED <<nlines, nbad, ids, req, resp, written, out, cache, upstream,
                 tag>>

\* std::future<std::string> tag = repo->GetTagName(head_target); the guard
\* that waits for it is set.
StartTag ==
  /\ pc = "tag"
  /\ tag' = [st |-> "running", valid |-> TRUE, got |-> "", val |-> ""]
  /\ stack' = Append(stack, "tag")
  /\ log' = Append(log, <<"GetTagName">>)
  /\ pc' = "workdir"
  /\ UNCHANGED <<prev, status>>
  /\ UNCHANGED <<nlines, nbad, ids, req, resp, written, out, cache, head,
                 upstream, seen, exit>>

\* The background lookup ends; what it leaves in the future, a tag name or
\* an exception, is seen where tag.get() reads it.
TagFinish ==
  /\ tag.st = "running"
  /\ tag' = [tag EXCEPT !.st = "ended"]
  /\ UNCHANGED <<prev, status>>
  /\ UNCHANGED <<pc, nlines, nbad, ids, req, resp, written, out, cache, head,
                 upstream, stack, seen, log, exit>>

\* if (workdir.len > 1 && workdir.ptr[workdir.len - 1] == '/') --workdir.len;
StripSlash_Any(w) ==
  IF Len(w) > 0 /\ w[Len(w)] = "/" THEN SubSeq(w, 1, Len(w) - 1) ELSE w
StripSlash(w) ==
  IF Len(w) > 1 /\ w[Len(w)] = "/" THEN SubSeq(w, 1, Len(w) - 1) ELSE w

\* The three fields printed first: the working directory without its
\* trailing slash, the revision (empty without a head commit) and the local
\* branch name.
HeadFields_NullOid(w, h) ==
  <<Str(StripSlash(w)), IF h.target # NoOid THEN OidStr(h.target) ELSE "0000",
    h.branch>>
HeadFields_Swapped(w, h) ==
  <<Str(StripSlash(w)), h.branch,
    IF h.target # NoOid THEN OidStr(h.target) ELSE "">>
HeadFields(w, h) ==
  <<Str(StripSlash(w)), IF h.target # NoOid THEN OidStr(h.target) ELSE "",
    h.branch>>

\* StringView workdir(git_repository_workdir(repo)); if it is empty, return;
\* workdir, revision and local branch are printed.  ws: the paths the
\* repository can answer with.
PrintWorkdirFrom(ws) ==
  /\ pc = "workdir"
  /\ \E w \in ws :
       /\ seen' = [seen EXCEPT !.workdir = w]
       /\ IF Len(w) = 0
          THEN /\ Leave("noworkdir")
               /\ UNCHANGED resp
          ELSE /\ resp' = PrintAll(resp, HeadFields(w, head))
               /\ pc' = "upstream"
               /\ UNCHANGED exit
  /\ UNCHANGED <<prev, status>>
  /\ UNCHANGED <<nlines, nbad, ids, req, written, out, cache, head, upstream,
                 tag, stack, log>>

PrintWorkdir == PrintWorkdirFrom(Workdirs)

\* const Remote remote = upstream ? GetRemote(repo, upstream) : Remote();
\* the remote's branch, name and URL and the repository state a are printed.
RemoteFields(u, a) ==
  LET remote == IF u # Null THEN GetRemote(u) ELSE EmptyRemote IN
  <<remote.branch, remote.name, IF u # Null THEN RemoteUrl(u) ELSE "", a>>

\* git_reference* upstream = Upstream(head); the guard that frees it, if it
\* is not null, is set; remote.branch, remote.name, the remote's URL and the
\* repository state are printed.
PrintUpstream ==
  /\ pc = "upstream"
  /\ \E u \in UpstreamRefs \cup {Null}, a \in Actions :
       LET n == (IF u = Null THEN 0
                 ELSE Cardinality(Reach(u.target) \ Reach(head.target)))
                + (IF a = "" THEN 0 ELSE 1)
       IN /\ Room(n)
          /\ seen' = [seen EXCEPT !.size = @ + n, !.action = a]
          /\ upstream' = u
          /\ log' = IF u = Null THEN log ELSE Append(log, <<"Upstream">>)
          /\ resp' = PrintAll(resp, RemoteFields(u, a))
  /\ stack' = Append(stack, "upstream")
  /\ pc' = "diff"
  /\ UNCHANGED <<prev, status>>
  /\ UNCHANGED <<nlines, nbad, ids, req, written, out, cache, head, tag, exit>>

\* if (req.diff)
DoDiff_Always(r) == TRUE
DoDiff(r) == r.diff

\* The five fields of the index statistics, and the five zeros printed
\* instead of them.
DiffFields_Transposed(stats) ==
  <<Dec(stats.index_size), Dec(stats.num_staged), Dec(stats.num_conflicted),
    Dec(stats.num_unstaged), Dec(stats.num_untracked)>>
DiffFields_Swapped(stats) ==
  <<Dec(stats.num_staged), Dec(stats.index_size), Dec(stats.num_unstaged),
    Dec(stats.num_conflicted), Dec(stats.num_untracked)>>
DiffFields(stats) ==
  <<Dec(stats.index_size), Dec(stats.num_staged), Dec(stats.num_unstaged),
    Dec(stats.num_conflicted), Dec(stats.num_untracked)>>
NoDiffFields == <<Dec(0), Dec(0), Dec(0), Dec(0), Dec(0)>>

\* if (req.diff) the five numbers of GetIndexStats are printed, else five
\* zeros.  unseen: what the index and working tree can hold when they are not
\* looked at.
PrintDiffFrom(unseen) ==
  /\ pc = "diff"
  /\ IF DoDiff(req)
     THEN \E w \in IndexWorlds, ks \in Splits :
            LET stats == GetIndexStats(w, ks) IN
            /\ Room(IndexSize(w) + w.untracked)
            /\ seen' = [seen EXCEPT !.index = w,
                                    !.size = @ + IndexSize(w) + w.untracked]
            /\ log' = Append(log, <<"GetIndexStats">>)
            /\ resp' = PrintAll(resp, DiffFields(stats))
     ELSE \E w \in unseen :
            /\ Room(IndexSize(w) + w.untracked)
            /\ seen' = [seen EXCEPT !.index = w,
                                    !.size = @ + IndexSize(w) + w.untracked]
            /\ resp' = PrintAll(resp, NoDiffFields)
            /\ UNCHANGED log
  /\ pc' = "counts"
  /\ UNCHANGED <<prev, status>>
  /\ UNCHANGED <<nlines, nbad, ids, req, written, out, cache, head, upstream,
                 tag, stack, exit>>

\* The model draws the index only where GetIndexStats reads it.
PrintDiff == PrintDiffFrom({NoIndex})

\* git_reference_shorthand(upstream) + "..HEAD"s
AheadRange_Swapped(u) == RangeOf("HEAD", Shorthand(u))
AheadRange(u) == RangeOf(Shorthand(u), "HEAD")
\* "HEAD.."s + git_reference_shorthand(upstream)
BehindRange_Swapped(u) == RangeOf(Shorthand(u), "HEAD")
BehindRange_Head(u) == RangeOf("HEAD", "HEAD")
BehindRange(u) == RangeOf("HEAD", Shorthand(u))

\* if (upstream) the two range counts are printed, else "0" twice; then the
\* number of stashes.
PrintCounts ==
  /\ pc = "counts"
  /\ \E n \in 0 .. MaxObjects :
       /\ Room(n)
       /\ seen' = [seen EXCEPT !.stashes = n, !.size = @ + n]
       /\ IF upstream # Null
          THEN LET refs == RepoRefs(head, upstream)
                   ahead == AheadRange(upstream)
                   behind == BehindRange(upstream)
               IN /\ resp' = PrintAll(resp,
                       <<Dec(CountRange(refs, ahead)),
                         Dec(CountRange(refs, behind)), Dec(n)>>)
                  /\ log' = log \o
                       <<<<"CountRange">> \o ahead, <<"CountRange">> \o behind>>
          ELSE /\ resp' = PrintAll(resp, <<"0", "0", Dec(n)>>)
               /\ UNCHANGED log
  /\ pc' = "tagget"
  /\ UNCHANGED <<prev, status>>
  /\ UNCHANGED <<nlines, nbad, ids, req, written, out, cache, head, upstream,
                 tag, stack, exit>>

\* The outcomes of the lookup: a tag name, none without a head commit, or
\* an exception kept in the future.  A lookup that is known to have failed
\* has the exception.
TagOutcomes_IgnoreFailure ==
  {[ok |-> TRUE, val |-> t] :
     t \in (IF head.target = NoOid THEN {""} ELSE TagNames)}
TagOutcomes ==
  IF tag.st = "failed" THEN {[ok |-> FALSE, val |-> ""]}
  ELSE {[ok |-> TRUE, val |-> t] :
          t \in (IF head.target = NoOid THEN {""} ELSE TagNames)}
         \cup {[ok |-> FALSE, val |-> ""]}

\* resp.Print(tag.get()); resp.Dump(): the tag name is printed and the id and
\* the printed fields go out as one record; or the exception of the lookup
\* is rethrown.  Either way the future is no longer valid.
GetTag(o) ==
  LET n == IF o.val = "" THEN 0 ELSE 1 IN
  /\ Room(n)
  /\ seen' = [seen EXCEPT !.size = @ + n]
  /\ tag' = [tag EXCEPT !.valid = FALSE, !.val = o.val,
                        !.got = IF o.ok THEN "value" ELSE "exception"]
  /\ IF o.ok
     THEN LET w == PrintAll(resp, <<o.val>>) IN
          /\ resp' = [w EXCEPT !.done = TRUE]
          /\ written' = Record(w)
          /\ out' = Append(out, Summary(Record(w)))
          /\ log' = log \o << <<"tag.get">>, <<"Dump">> >>
          /\ Leave("complete")
     ELSE /\ log' = Append(log, <<"tag.get">>)
          /\ Leave("throw")
          /\ UNCHANGED <<resp, written, out>>
  /\ UNCHANGED <<prev, status>>
  /\ UNCHANGED <<nlines, nbad, ids, req, cache, head, upstream, stack>>

PrintTag_NoJoin ==
  /\ pc = "tagget"
  /\ \E o \in TagOutcomes : GetTag(o)

\* tag.get() blocks until the lookup has ended.
PrintTag ==
  /\ pc = "tagget"
  /\ tag.st # "running"
  /\ \E o \in TagOutcomes : GetTag(o)

\* A call into the repository throws Exception.
CanThrow ==
  \/ pc \in {"open", "head", "tag", "upstream", "counts"}
  \/ pc = "diff" /\ DoDiff(req)

Throw_Uncaught ==
  /\ CanThrow
  /\ pc' = "aborted"
  /\ exit' = "throw"
  /\ UNCHANGED <<prev, status>>
  /\ UNCHANGED <<nlines, nbad, ids, req, resp, written, out, cache, head,
                 upstream, tag, stack, seen, log>>

\* The exception leaves ProcessRequest and is caught in the loop.
Throw ==
  /\ CanThrow
  /\ Leave("throw")
  /\ UNCHANGED <<prev, status>>
  /\ UNCHANGED <<nlines, nbad, ids, req, resp, written, out, cache, head,
                 upstream, tag, stack, seen, log>>

\* ------------------------------------------------------------- unwinding

\* What the guards and destructors of ProcessRequest do when it is left, each
\* as the entries it adds to the log.

\* ON_SCOPE_EXIT(=) { if (upstream) git_reference_free(upstream); }
FreeUpstream_Always == << <<"free upstream">> >>
FreeUpstream == IF upstream # Null THEN << <<"free upstream">> >> ELSE <<>>

\* ON_SCOPE_EXIT(&) { if (tag.valid()) tag.wait(); }
WaitTag == IF tag.valid THEN << <<"tag.wait">> >> ELSE <<>>

\* ON_SCOPE_EXIT(=) { git_reference_free(head); }
FreeHead == << <<"free head">> >>

RECURSIVE RunGuards_Forward(_)
RunGuards_Forward(st) ==
  IF st = <<>> THEN <<>>
  ELSE LET g == st[1] IN
       (CASE g = "upstream" -> FreeUpstream
          [] g = "tag" -> WaitTag
          [] g = "head" -> FreeHead
          [] OTHER -> <<>>)
         \o RunGuards_Forward(Tail(st))

\* The guards of a stack run innermost first.
RECURSIVE RunGuards(_)
RunGuards(st) ==
  IF st = <<>> THEN <<>>
  ELSE LET g == st[Len(st)] IN
       (CASE g = "upstream" -> FreeUpstream
          [] g = "tag" -> WaitTag
          [] g = "head" -> FreeHead
          [] OTHER -> <<>>)
         \o RunGuards(SubSeq(st, 1, Len(st) - 1))

\* tag.wait() returns once the lookup has ended.
CanUnwind_NoWait == TRUE
CanUnwind ==
  (tag.valid /\ \E i \in 1 .. Len(stack) : stack[i] = "tag") => tag.st # "running"

\* The end of ProcessRequest's scope, by return or by exception: the guards
\* run in reverse order; then ~ResponseWriter() puts a record that was not
\* dumped out as its id alone, and the timer reports.  The loop reads again.
Unwind ==
  /\ pc = "unwind"
  /\ CanUnwind
  /\ log' = log \o RunGuards(stack)
  /\ stack' = <<>>
  /\ IF resp.done
     THEN UNCHANGED <<written, out>>
     ELSE /\ written' = IdOnly(resp)
          /\ out' = Append(out, Summary(IdOnly(resp)))
  /\ pc' = "read"
  /\ UNCHANGED <<prev, status>>
  /\ UNCHANGED <<nlines, nbad, ids, req, resp, cache, head, upstream, tag,
                 seen, exit>>

Next ==
  \/ ReadRequest
  \/ ReadMalformed
  \/ Open
  \/ GetHead
  \/ StartTag
  \/ TagFinish
  \/ PrintWorkdir
  \/ PrintUpstream
  \/ PrintDiff
  \/ PrintCounts
  \/ PrintTag
  \/ Throw
  \/ Unwind

Spec == Init /\ [][Next]_vars

\* --------------------------------------------- working directory paths

\* Every absolute path of up to MaxPath characters, with any number of
\* slashes anywhere.
Paths ==
  UNION {{w \in [1 .. n -> {"/", "r"}] : w[1] = "/"} : n \in 1 .. MaxPath}

\* ProcessRequest has the head and has started the tag lookup: the state in
\* which it asks for the working directory.
InitPath ==
  /\ pc = "workdir"
  /\ nlines = 1
  /\ nbad = 0
  /\ req \in {r \in Requests : r.dir \in Repos}
  /\ ids = <<req.id>>
  /\ resp = NewResponse(req)
  /\ written = <<>>
  /\ out = <<>>
  /\ cache = {req.dir}
  /\ head \in HeadRefs
  /\ upstream = Null
  /\ tag = [st |-> "running", valid |-> TRUE, got |-> "", val |-> ""]
  /\ stack = <<"timer", "resp", "head", "tag">>
  /\ seen = [NoSeen EXCEPT !.size = Height(head.target)]
  /\ log = << <<"Open">>, <<"Head">>, <<"GetTagName">> >>
  /\ exit = ""
  /\ prev = NoPrev
  /\ status = Running

\* The working directory is any path.
PrintAnyWorkdir == PrintWorkdirFrom(Paths)

NextPath == PrintAnyWorkdir

SpecPath == InitPath /\ [][NextPath]_vars

\* ------------------------------------------------- index not looked at

\* ProcessRequest has printed the seven fields before the index statistics,
\* for a head without an upstream: the state in which it tests req.diff.
InitIndex ==
  /\ pc = "diff"
  /\ nlines = 1
  /\ nbad = 0
  /\ req \in {r \in Requests : r.dir \in Repos}
  /\ ids = <<req.id>>
  /\ head \in HeadRefs
  /\ resp = PrintAll(NewResponse(req),
                     HeadFields(<<"/", "r", "/">>, head) \o RemoteFields(Null, ""))
  /\ written = <<>>
  /\ out = <<>>
  /\ cache = {req.dir}
  /\ upstream = Null
  /\ tag = [st |-> "running", valid |-> TRUE, got |-> "", val |-> ""]
  /\ stack = <<"timer", "resp", "head", "tag", "upstream">>
  /\ seen = [NoSeen EXCEPT !.workdir = <<"/", "r", "/">>,
                           !.size = Height(head.target)]
  /\ log = << <<"Open">>, <<"Head">>, <<"GetTagName">> >>
  /\ exit = ""
  /\ prev = NoPrev
  /\ status = Running

\* The index and the working tree hold what they hold, whether the request
\* asks for the statistics or not.
PrintDiffAnyIndex == PrintDiffFrom(IndexWorlds)

NextIndex ==
  \/ PrintDiffAnyIndex
  \/ PrintCounts
  \/ TagFinish
  \/ PrintTag
  \/ Throw
  \/ Unwind

SpecIndex == InitIndex /\ [][NextIndex]_vars

\* ------------------------------------------- the same request twice

\* What is kept of a request when the next one is read: the request, what
\* the repository answered and the record that went out.
Remembered ==
  [kind |-> "request", req |-> req, head |-> head, upstream |-> upstream,
   seen |-> seen, tag |-> tag.val, exit |-> exit, written |-> written]

\* The repository is as the remembered request found it: what it has
\* answered so far in this request is what it answered then.  The fields
\* printed tell how far the request has come.
WorldUnchanged ==
  prev # NoPrev =>
    /\ exit = "nohead" => prev.exit = "nohead"
    /\ head # Null => head = prev.head
    /\ exit = "noworkdir" => prev.exit = "noworkdir"
    /\ seen.workdir # <<>> => seen.workdir = prev.seen.workdir
    /\ Len(resp.buf) >= 7 =>
         (upstream = prev.upstream /\ seen.action = prev.seen.action)
    /\ Len(resp.buf) >= 12 => seen.index = prev.seen.index
    /\ Len(resp.buf) >= 15 => seen.stashes = prev.seen.stashes
    /\ tag.got = "value" => tag.val = prev.tag

\* The first request: the cache is empty.
ReadFirst ==
  /\ nlines = 0
  /\ ReadRequest

\* The request that was answered without an exception comes again, right
\* after its record.
ReadAgain ==
  /\ pc = "read"
  /\ nlines = 1
  /\ nlines < MaxRequests
  /\ prev = NoPrev
  /\ exit \in {"complete", "norepo", "nohead", "noworkdir"}
  /\ prev' = Remembered
  /\ req' = req
  /\ ids' = Append(ids, req.id)
  /\ resp' = NewResponse(req)
  /\ nlines' = nlines + 1
  /\ pc' = "open"
  /\ written' = <<>>
  /\ head' = Null
  /\ upstream' = Null
  /\ tag' = NoTag
  /\ stack' = <<"timer", "resp">>
  /\ seen' = NoSeen
  /\ log' = <<>>
  /\ exit' = ""
  /\ UNCHANGED <<nbad, out, cache, status>>

\* The steps of ProcessRequest.
Process ==
  \/ Open
  \/ GetHead
  \/ StartTag
  \/ TagFinish
  \/ PrintWorkdir
  \/ PrintUpstream
  \/ PrintDiff
  \/ PrintCounts
  \/ PrintTag
  \/ Throw
  \/ Unwind

NextTwice ==
  \/ ReadFirst
  \/ ReadAgain
  \/ Process /\ WorldUnchanged'

SpecTwice == Init /\ [][NextTwice]_vars

\* ------------------------------------------------- a lookup that fails

\* The background lookup throws: the exception stays in the future, and the
\* thread of the lookup ends.
TagFail ==
  /\ tag.st = "running"
  /\ tag' = [tag EXCEPT !.st = "failed"]
  /\ UNCHANGED <<pc, nlines, nbad, ids, req, resp, written, out, cache, head,
                 upstream, stack, seen, log, exit, prev, status>>

\* ProcessRequest from the start of the lookup on, with a lookup that can be
\* seen to fail at any time.
NextFail ==
  \/ TagFail
  \/ TagFinish
  \/ PrintWorkdir
  \/ PrintUpstream
  \/ PrintDiff
  \/ PrintCounts
  \/ PrintTag
  \/ Throw
  \/ Unwind

SpecFail == InitPath /\ [][NextFail]_vars

\* -------------------------------------------------------------- SIGTERM

\* The signal that GitStatus traps.
SIGTERM == 15

\* Trap<Signal>(): the handler writes a message to stderr and calls
\* _exit(Signal + 128).
Trap(Signal) == Signal + 128

\* The handler returns instead of leaving the process.
Sigterm_Returns ==
  /\ status = Running
  /\ status' = Trap(SIGTERM)
  /\ UNCHANGED <<pc, nlines, nbad, ids, req, resp, written, out, cache, head,
                 upstream, tag, stack, seen, log, exit, prev>>

\* SIGTERM is delivered, wherever the process is: the handler runs and the
\* process is gone, its memory and the thread of the tag lookup with it.
\* What is outside it stays as it is: the lines read, the output and the
\* trace of its calls.
Sigterm ==
  /\ status = Running
  /\ status' = Trap(SIGTERM)
  /\ pc' = "exited"
  /\ req' = NoRequest
  /\ resp' = ResponseWriter("")
  /\ cache' = {}
  /\ head' = Null
  /\ upstream' = Null
  /\ tag' = NoTag
  /\ stack' = <<>>
  /\ seen' = NoSeen
  /\ exit' = ""
  /\ UNCHANGED <<nlines, nbad, ids, written, out, log, prev>>

NextTerm ==
  \/ Next
  \/ Sigterm

SpecTerm == Init /\ [][NextTerm]_vars

\* ------------------------------------------------------------------ claims

\* The request thread has the call op in this request's log.
Called(op) == \E i \in 1 .. Len(log) : log[i][1] = op
\* How often.
Calls(op) == Cardinality({i \in 1 .. Len(log) : log[i][1] = op})
\* The first place of op in the log (0: nowhere).
Place(op) ==
  IF Called(op) THEN CHOOSE i \in 1 .. Len(log) :
                       /\ log[i][1] = op
                       /\ \A j \in 1 .. (i - 1) : log[j][1] # op
  ELSE 0

\* Dump has written this request's record.
Completed == resp.done
\* ProcessRequest was left without a record having been dumped.
Failed == exit \in {"norepo", "nohead", "noworkdir", "throw"}
\* The decimal numerals up to n.
Numerals(n) == {Dec(k) : k \in 0 .. n}

\* The index statistics a request reports for the index and working tree w.
Reported(w) ==
  LET large == IndexSize(w) > opts.dirty_max_index_size IN
  [index_size |-> IndexSize(w),
   num_staged |-> Min(w.staged, opts.max_num_staged),
   num_unstaged |-> IF large THEN 0 ELSE Min(w.unstaged, opts.max_num_unstaged),
   num_conflicted |->
     IF large THEN 0 ELSE Min(w.conflicted, opts.max_num_conflicted),
   num_untracked |->
     IF large THEN 0 ELSE Min(w.untracked, opts.max_num_untracked)]

\* C1: every record that ProcessRequest completes has 17 fields, each at its
\* place: id, working directory, head commit, local branch, upstream branch,
\* remote name, remote URL, repository action, index size, staged, unstaged,
\* conflicted, untracked, ahead, behind, stashes, tag; whatever diff_flag
\* is, with or without an upstream, with a born or an unborn head.
C1_SeventeenFields ==
  Completed =>
    /\ Len(written) = 17
    /\ written[1] = req.id
    /\ Str(seen.workdir) \in {written[2], written[2] \o "/"}
    /\ written[3] = (IF head.target = NoOid THEN "" ELSE OidStr(head.target))
    /\ written[4] = head.branch
    /\ written[5] = (IF upstream = Null THEN "" ELSE upstream.branch)
    /\ written[6] = (IF upstream = Null THEN "" ELSE upstream.remote)
    /\ written[7] = (IF upstream = Null THEN "" ELSE upstream.url)
    /\ written[8] = seen.action
    /\ written[9] = Dec(Reported(seen.index).index_size)
    /\ written[10] = Dec(Reported(seen.index).num_staged)
    /\ written[11] = Dec(Reported(seen.index).num_unstaged)
    /\ written[12] = Dec(Reported(seen.index).num_conflicted)
    /\ written[13] = Dec(Reported(seen.index).num_untracked)
    /\ written[14] = (IF upstream = Null THEN "0"
                      ELSE Dec(Cardinality(Reach(head.target) \ Reach(upstream.target))))
    /\ written[15] = (IF upstream = Null THEN "0"
                      ELSE Dec(Cardinality(Reach(upstream.target) \ Reach(head.target))))
    /\ written[16] = Dec(seen.stashes)
    /\ written[17] = tag.val

\* A complete record for diff_flag = 1, an upstream and an unborn head.
C1_Witness ==
  /\ Completed
  /\ req.diff
  /\ upstream # Null
  /\ head.target = NoOid
  /\ Len(written) = 17

\* C2: a request that finds no repository, no head or no working directory,
\* or whose processing throws, is answered by its id alone, whatever had been
\* printed before, and the loop reads on.
C2_IdOnlyOnFailure ==
  Failed =>
    /\ pc \in {"unwind", "read"}
    /\ pc = "unwind" => written = <<>>
    /\ pc = "read" => /\ written = <<req.id>>
                      /\ out[Len(out)] = [id |-> req.id, n |-> 1]
                      /\ nlines < MaxRequests => ENABLED ReadRequest

\* A request failed after fields had been printed, and only its id went out.
C2_Witness ==
  /\ exit = "throw"
  /\ pc = "read"
  /\ Len(resp.buf) >= 12
  /\ written = <<req.id>>

\* C3: requests are processed one at a time: every request read gets one
\* record, which starts with its id; the records are in the order of the
\* requests; no request is read before the record of the one before is out.
C3_OneAtATime ==
  /\ Len(ids) = nlines - nbad
  /\ Len(out) <= Len(ids)
  /\ Len(ids) <= Len(out) + 1
  /\ \A i \in 1 .. Len(out) : out[i].id = ids[i]
  /\ pc = "read" => Len(out) = Len(ids)
  /\ (pc # "read" /\ written = <<>>) => Len(out) = Len(ids) - 1
  /\ written # <<>> => /\ written[1] = req.id
                       /\ Len(out) = Len(ids)
                       /\ out[Len(out)] = Summary(written)

\* Two requests with different ids have both been answered.
C3_Witness ==
  /\ pc = "read"
  /\ Len(out) = 2
  /\ out[1].id # out[2].id

\* C4: with diff_flag = 0 the fields 9 to 13 of the complete record are "0"
\* and GetIndexStats is not called.
C4_NoDiff ==
  ~req.diff =>
    /\ ~Called("GetIndexStats")
    /\ Completed => \A i \in 9 .. 13 : written[i] = "0"

\* A complete record of a request with diff_flag = 0.
C4_Witness ==
  /\ Completed
  /\ ~req.diff
  /\ nlines > nbad

\* C5: without an upstream the fields 5 to 7 are empty, 14 and 15 are "0"
\* and no range is counted; with an upstream the two ranges counted are
\* upstream..HEAD and HEAD..upstream, for the one upstream reference.
C5_Upstream ==
  /\ upstream = Null =>
       /\ ~Called("CountRange")
       /\ Completed => /\ \A i \in 5 .. 7 : written[i] = ""
                       /\ written[14] = "0"
                       /\ written[15] = "0"
  /\ (upstream # Null /\ Completed) =>
       /\ Calls("CountRange") = 2
       /\ \E i \in 1 .. Len(log) :
            log[i] = <<"CountRange", Shorthand(upstream), "..", "HEAD">>
       /\ \E i \in 1 .. Len(log) :
            log[i] = <<"CountRange", "HEAD", "..", Shorthand(upstream)>>

\* A complete record of a request whose head has an upstream that it is
\* both ahead of and behind.
C5_Witness ==
  /\ Completed
  /\ upstream # Null
  /\ written[14] # "0"
  /\ written[15] # "0"

\* The bounds that the options hold.
ConfiguredBounds ==
  {opts.max_num_staged, opts.max_num_unstaged, opts.max_num_conflicted,
   opts.max_num_untracked}
LargestBound == CHOOSE m \in ConfiguredBounds : \A k \in ConfiguredBounds : k <= m

\* C6, as claimed: commits_ahead and commits_behind never exceed a
\* configured maximum.
C6_Original ==
  Completed =>
    /\ written[14] \in Numerals(LargestBound)
    /\ written[15] \in Numerals(LargestBound)

\* C6, amended: commits_ahead and commits_behind are bounded by the commit
\* graph alone: commits_ahead by the commits reachable from head,
\* commits_behind by the commits reachable from the upstream tip; no option
\* caps them.
C6_BoundedByGraph ==
  Completed =>
    /\ written[14] \in Numerals(Cardinality(Reach(head.target)))
    /\ written[15] \in
         Numerals(IF upstream = Null THEN 0
                  ELSE Cardinality(Reach(upstream.target)))

\* A complete record whose commits_ahead is above every bound of the options.
C6_Witness ==
  /\ Completed
  /\ upstream # Null
  /\ written[14] \notin Numerals(LargestBound)

\* The index is past the threshold of the options.
TooLarge(w) == IndexSize(w) > opts.dirty_max_index_size

C8_TagOverlap ==
  /\ Called("GetIndexStats") =>
       /\ Called("GetTagName")
       /\ Place("GetTagName") < Place("GetIndexStats")
  /\ Called("Dump") =>
       /\ Called("tag.get")
       /\ Place("GetTagName") < Place("tag.get")
       /\ Place("tag.get") < Place("Dump")
       /\ tag.st # "running"
  /\ Called("tag.get") => Len(resp.buf) >= 15
  /\ pc \in {"workdir", "upstream", "diff", "counts"} =>
       ENABLED (PrintWorkdir \/ PrintUpstream \/ PrintDiff \/ PrintCounts)

\* The index statistics are in while the tag lookup is still running.
C8_Witness ==
  /\ Called("GetIndexStats")
  /\ pc = "counts"
  /\ tag.st = "running"

\* C9: the head reference is freed once on every way out of ProcessRequest
\* after it was obtained, the upstream reference once if there is one; no
\* reference is freed that was not obtained, none twice.
C9_Released ==
  /\ Calls("Head") = (IF head = Null THEN 0 ELSE 1)
  /\ Calls("Upstream") = (IF upstream = Null THEN 0 ELSE 1)
  /\ Calls("free head") <= Calls("Head")
  /\ Calls("free upstream") <= Calls("Upstream")
  /\ pc = "read" => /\ Calls("free head") = Calls("Head")
                    /\ Calls("free upstream") = Calls("Upstream")

\* ProcessRequest was left by an exception and both references were freed.
C9_Witness ==
  /\ pc = "read"
  /\ exit = "throw"
  /\ Calls("free head") = 1
  /\ Calls("free upstream") = 1

\* C10: a malformed line is skipped: the step that reads it writes no
\* record, does not enter ProcessRequest and leaves the cache as it is, and
\* the loop goes on to read the next line.
C10_MalformedSkipped ==
  /\ [][nbad' # nbad =>
          /\ pc = "read" /\ pc' = "read"
          /\ nlines' = nlines + 1
          /\ UNCHANGED <<ids, req, resp, written, out, cache, head, upstream,
                         tag, stack, seen, log, exit>>]_vars
  /\ []((nbad > 0 /\ pc = "read" /\ nlines < MaxRequests) => ENABLED ReadRequest)

\* A request is read after a malformed line.
C10_Witness ==
  /\ nbad > 0
  /\ pc = "open"
  /\ out = <<>>

Printed(w) ==
  {x \in {w, SubSeq(w, 1, Len(w) - 1)} : Str(x) = resp.buf[1]}
\* w ends in a separator.
EndsInSlash(w) == w # <<>> /\ w[Len(w)] = "/"

C13_Original ==
  Completed => (written[12] # "0" <=> seen.index.conflicted > 0)

\* C13, amended: the reported num_conflicted is above 0 only if an index
\* entry has a stage above 0; it is above 0 for every such index when
\* diff_flag is 1 and the index is not too large, and it is 0 when diff_flag
\* is 0 or the index is too large, whatever the index holds.
C13_Conflicted ==
  Completed =>
    /\ written[12] # "0" => seen.index.conflicted > 0
    /\ (req.diff /\ ~TooLarge(seen.index) /\ seen.index.conflicted > 0) =>
         written[12] # "0"
    /\ (~req.diff \/ TooLarge(seen.index)) => written[12] = "0"

\* A complete record of a request with diff_flag = 1 reports the conflicted
\* entry of an index that is not too large.
C13_Witness ==
  /\ Completed
  /\ req.diff
  /\ seen.index.conflicted > 0
  /\ ~TooLarge(seen.index)
  /\ written[12] = Dec(seen.index.conflicted)

\* The head is a symbolic reference without a target commit.
Unborn == head # Null /\ head.target = NoOid

OnlyIn(a, b) ==
  {c \in Commits : c \in Reach(a) /\ c \notin Reach(b)}

\* C15: with an upstream, commits_ahead is the number of commits reachable
\* from head and not from the upstream tip and commits_behind the number
\* reachable from the upstream tip and not from head, for every commit graph:
\* each stands at its own place, the range upstream..HEAD is counted first,
\* and both are "0" when head is the upstream tip.
C15_AheadBehind ==
  (Completed /\ upstream # Null) =>
    /\ written[14] = Dec(Cardinality(OnlyIn(head.target, upstream.target)))
    /\ written[15] = Dec(Cardinality(OnlyIn(upstream.target, head.target)))
    /\ head.target = upstream.target =>
         (written[14] = "0" /\ written[15] = "0")
    /\ \E i, j \in 1 .. Len(log) :
         /\ i < j
         /\ log[i] = <<"CountRange", Shorthand(upstream), "..", "HEAD">>
         /\ log[j] = <<"CountRange", "HEAD", "..", Shorthand(upstream)>>

\* A head two commits ahead of its upstream and not behind it.
C15_Witness ==
  /\ Completed
  /\ upstream # Null
  /\ Cardinality(OnlyIn(head.target, upstream.target)) = 2
  /\ written[14] = "2"
  /\ written[15] = "0"

Joins == Calls("tag.get") + Calls("tag.wait")

\* C17: a tag lookup that was started has ended when ProcessRequest is left,
\* by completion, by the return for an empty working directory or by an
\* exception: none is running when the loop reads; it is joined once, by
\* tag.get() where the record is completed or tag.get() has thrown, by the
\* guard's tag.wait() otherwise, and never by both.
C17_TagJoined ==
  /\ pc = "read" => tag.st # "running"
  /\ Joins <= 1
  /\ (pc = "read" /\ Called("GetTagName")) => Joins = 1
  /\ Completed => Called("tag.get")
  /\ (pc = "read" /\ Called("GetTagName") /\ Len(resp.buf) < 15) =>
       Called("tag.wait")
  /\ Called("tag.wait") => (pc = "read" /\ exit \in {"noworkdir", "throw"})

\* ProcessRequest returned for an empty working directory after it had
\* waited for the lookup.
C17_Witness ==
  /\ pc = "read"
  /\ exit = "noworkdir"
  /\ Called("tag.wait")
  /\ tag.st = "ended"

\* The place in the log where the tag lookup is joined (0: nowhere).
JoinPlace ==
  IF Called("tag.get") THEN Place("tag.get") ELSE Place("tag.wait")

\* C18: the head reference is not freed while the tag lookup runs: on every
\* way out the lookup is joined before the head is freed, and a record, full
\* or id-only, goes out only when the lookup has ended.
C18_HeadOutlivesLookup ==
  /\ Called("free head") =>
       /\ tag.st # "running"
       /\ Called("GetTagName") =>
            /\ Joins = 1
            /\ Place("GetTagName") < JoinPlace
            /\ JoinPlace < Place("free head")
  /\ written # <<>> => tag.st # "running"
  /\ (pc = "read" /\ Called("Head")) => Called("free head")

\* An exception ended the request: the guard waited for the lookup, the head
\* was freed after it and the id went out.
C18_Witness ==
  /\ pc = "read"
  /\ exit = "throw"
  /\ Called("tag.wait")
  /\ Place("tag.wait") < Place("free head")
  /\ written = <<req.id>>

\* C19: a failure of the tag lookup stays in its future: the request thread
\* goes on printing its fields and can always take its next step; the
\* failure comes up at tag.get(), when the fifteen other fields are printed,
\* and makes the request one that is answered by its id alone, after which
\* the loop reads on; when the request has ended before tag.get(), by the
\* return for an empty working directory or by an exception, the guard waits
\* for the lookup and the failure raises nothing: the request is left as it
\* was being left and is answered once, by its id.
C19_TagFailure ==
  tag.st = "failed" =>
    /\ status = Running
    /\ ~Completed
    /\ ~Called("Dump")
    /\ pc \in {"workdir", "upstream", "diff", "counts"} =>
         /\ exit = ""
         /\ tag.got = ""
         /\ ENABLED (PrintWorkdir \/ PrintUpstream \/ PrintDiff \/ PrintCounts)
    /\ tag.got = "exception" =>
         /\ Len(resp.buf) = 15
         /\ exit = "throw"
         /\ ~Called("tag.wait")
    /\ (tag.got = "" /\ pc \in {"unwind", "read"}) =>
         /\ exit \in {"noworkdir", "throw"}
         /\ Len(resp.buf) < 15
         /\ pc = "read" => Called("tag.wait")
    /\ pc = "read" =>
         /\ written = <<req.id>>
         /\ out = <<[id |-> req.id, n |-> 1]>>
         /\ nlines < MaxRequests => ENABLED ReadRequest

\* The lookup failed, tag.get() threw when all other fields were printed,
\* and the id alone went out.
C19_Witness ==
  /\ tag.st = "failed"
  /\ tag.got = "exception"
  /\ pc = "read"
  /\ Len(resp.buf) = 15
  /\ written = <<req.id>>

\* A request is in flight: it was read and has no record yet.
InFlight == Len(ids) = Len(out) + 1

\* C20: SIGTERM can come at any point, while the loop waits for a line and
\* in the middle of a request; the step that takes it ends the process with
\* status 128 + 15, writes no record, runs no guard and does not wait for
\* the tag lookup; nothing happens afterwards, so a request in flight gets
\* no record, full or id-only.
C20_Sigterm ==
  /\ [][status' # status =>
          /\ status = Running
          /\ status' = 128 + SIGTERM
          /\ pc' = "exited"
          /\ out' = out
          /\ written' = written
          /\ log' = log
          /\ stack' = <<>>]_vars
  /\ [](status = Running => (pc # "exited" /\ ENABLED Sigterm))
  /\ [](status # Running =>
          /\ pc = "exited"
          /\ ~ENABLED NextTerm
          /\ InFlight => written = <<>>)

\* The process was ended in the middle of a request, while the tag lookup
\* ran: no guard has run and no record is out for the request.
C20_Witness ==
  /\ status = 128 + SIGTERM
  /\ pc = "exited"
  /\ InFlight
  /\ Called("GetIndexStats")
  /\ ~Called("tag.get")
  /\ ~Called("tag.wait")
  /\ ~Called("free head")
  /\ written = <<>>

====
